---- MODULE Spec2Model ----
(***************************************************************************)
(* ChebConv.forward (python/dgl/nn/pytorch/conv/chebconv.py) as a state    *)
(* machine: one action per statement group of forward, with the places     *)
(* where an external call can raise modelled as a second outcome of the    *)
(* step.                                                                   *)
(*                                                                         *)
(* Tensor entries are exact numbers of the field Q(sqrt 2, sqrt 3): a      *)
(* number is <<a, b, c, d, n>>, meaning (a + b*sqrt2 + c*sqrt3 + d*sqrt6)  *)
(* / n with n > 0 and gcd(a, b, c, d, n) = 1.  The field holds d^(-1/2)    *)
(* for every in-degree d whose square-free part divides 6, which covers    *)
(* every in-degree below 5.  A division by zero gives NonFinite, which     *)
(* stands for inf and nan alike and which every operation hands on.        *)
(* Floating-point rounding is not modelled.                                *)
(***************************************************************************)
EXTENDS Integers, Sequences, FiniteSets, TLC

\* ------------------------------------------------------------------ bounds
MaxN == 3
MaxK == 4

\* ------------------------------------------------------- exact arithmetic
Abs(x) == IF x < 0 THEN -x ELSE x

RECURSIVE Gcd(_, _)
Gcd(a, b) == IF b = 0 THEN a ELSE Gcd(b, a % b)

Gcd5(t) == Gcd(Gcd(Gcd(Gcd(Abs(t[1]), Abs(t[2])), Abs(t[3])), Abs(t[4])), Abs(t[5]))

\* inf, -inf or nan
NonFinite == <<0, 0, 0, 0, 0>>
IsFinite(x) == x[5] # 0

\* the canonical form of (a + b*sqrt2 + c*sqrt3 + d*sqrt6) / n
Norm(t) ==
  IF t[5] = 0 THEN NonFinite
  ELSE LET g == Gcd5(t)
           s == IF t[5] < 0 THEN -g ELSE g
       IN  <<t[1] \div s, t[2] \div s, t[3] \div s, t[4] \div s, t[5] \div s>>

Num(n) == <<n, 0, 0, 0, 1>>
Zero == Num(0)
One == Num(1)
Two == Num(2)

NAdd(x, y) ==
  Norm(<<x[1] * y[5] + y[1] * x[5], x[2] * y[5] + y[2] * x[5],
         x[3] * y[5] + y[3] * x[5], x[4] * y[5] + y[4] * x[5], x[5] * y[5]>>)

NNeg(x) == <<-x[1], -x[2], -x[3], -x[4], x[5]>>

NSub(x, y) == NAdd(x, NNeg(y))

NMul(x, y) ==
  Norm(<<x[1] * y[1] + 2 * x[2] * y[2] + 3 * x[3] * y[3] + 6 * x[4] * y[4],
         x[1] * y[2] + x[2] * y[1] + 3 * (x[3] * y[4] + x[4] * y[3]),
         x[1] * y[3] + x[3] * y[1] + 2 * (x[2] * y[4] + x[4] * y[2]),
         x[1] * y[4] + x[4] * y[1] + x[2] * y[3] + x[3] * y[2],
         x[5] * y[5]>>)

\* x / y for a rational y (every eigenvalue of the model is one); x / 0 is
\* not finite
NDiv(x, y) == NMul(x, Norm(<<y[5], 0, 0, 0, y[1]>>))

\* the largest s with s*s dividing n
RECURSIVE SquarePart(_, _)
SquarePart(n, s) == IF s = 1 \/ n % (s * s) = 0 THEN s ELSE SquarePart(n, s - 1)

\* th.pow(n, -0.5) for an integer n >= 0: inf for 0, and with n = s*s*m,
\* sqrt(m) / (s*m)
InvSqrt(n) ==
  IF n = 0 THEN NonFinite
  ELSE LET s == SquarePart(n, n)
           m == n \div (s * s)
       IN  CASE m = 1 -> <<1, 0, 0, 0, s>>
             [] m = 2 -> <<0, 1, 0, 0, 2 * s>>
             [] m = 3 -> <<0, 0, 1, 0, 3 * s>>
             [] m = 6 -> <<0, 0, 0, 1, 6 * s>>

\* the sign of p + q*sqrt(r) for integers p, q and r > 0 not a square
SignQuad(p, q, r) ==
  IF p >= 0 /\ q >= 0 THEN (IF p = 0 /\ q = 0 THEN 0 ELSE 1)
  ELSE IF p <= 0 /\ q <= 0 THEN -1
  ELSE IF p > 0 THEN (IF p * p > r * q * q THEN 1 ELSE -1)
  ELSE (IF r * q * q > p * p THEN 1 ELSE -1)

\* the sign of x = P + Q*sqrt3 with P = a + b*sqrt2 and Q = c + d*sqrt2:
\* when P and Q disagree in sign, P*P - 3*Q*Q (a number of Q(sqrt2)) decides
NSign(x) ==
  LET sp == SignQuad(x[1], x[2], 2)
      sq == SignQuad(x[3], x[4], 2)
      e  == x[1] * x[1] + 2 * x[2] * x[2] - 3 * (x[3] * x[3] + 2 * x[4] * x[4])
      f  == 2 * x[1] * x[2] - 6 * x[3] * x[4]
      sd == SignQuad(e, f, 2)
  IN  IF sq = 0 THEN sp
      ELSE IF sp = 0 THEN sq
      ELSE IF sp = sq THEN sp
      ELSE IF sp > 0 THEN sd ELSE -sd


\* ----------------------------------------------------------------- tensors
\* A 2-D tensor is a sequence of rows, each a sequence of numbers; an unset
\* local is <<>>.
Rows(A) == Len(A)
Cols(A) == Len(A[1])

Max(a, b) == IF a >= b THEN a ELSE b

\* torch's broadcasting of two 2-D tensors: a dimension of size 1 is repeated
At(A, r, c) == A[IF Rows(A) = 1 THEN 1 ELSE r][IF Cols(A) = 1 THEN 1 ELSE c]

BOp(Op(_, _), A, B) ==
  [r \in 1..Max(Rows(A), Rows(B)) |->
     [c \in 1..Max(Cols(A), Cols(B)) |-> Op(At(A, r, c), At(B, r, c))]]

\* A * B
TMul(A, B) == BOp(NMul, A, B)

\* python scalar / tensor
TRecip(x, A) == [r \in 1..Rows(A) |-> [c \in 1..Cols(A) |-> NDiv(x, A[r][c])]]

\* the new block put before the running concatenation
Cat_Reversed(A, B) == [r \in 1..Rows(A) |-> B[r] \o A[r]]

\* th.cat((A, B), 1)
Cat(A, B) == [r \in 1..Rows(A) |-> A[r] \o B[r]]

RECURSIVE NSum(_)
NSum(s) == IF s = <<>> THEN Zero ELSE NAdd(Head(s), NSum(Tail(s)))

\* nn.Linear: x W^T (+ b), weight of shape (out_features, in_features)
LinearApply(lin, X) ==
  [r \in 1..Rows(X) |->
     [o \in 1..Len(lin.weight) |->
        LET dot == NSum([j \in 1..Cols(X) |-> NMul(X[r][j], lin.weight[o][j])])
        IN  IF lin.bias = <<>> THEN dot ELSE NAdd(dot, lin.bias[o])]]

\* F.relu, elementwise
Relu(X) ==
  [r \in 1..Rows(X) |->
     [c \in 1..Cols(X) |->
        IF ~IsFinite(X[r][c]) \/ NSign(X[r][c]) > 0 THEN X[r][c] ELSE Zero]]

\* ------------------------------------------------------------------ graphs
\* A (batched) graph: N nodes 1..N, the node count of each graph of the
\* batch, and directed edges <<u, v>> from u to v, none across two graphs.
B(g) == Len(g.batch_num_nodes)

RECURSIVE GraphOfFrom(_, _, _)
GraphOfFrom(sizes, v, j) ==
  IF v <= sizes[j] THEN j ELSE GraphOfFrom(sizes, v - sizes[j], j + 1)

\* the graph of the batch that node v belongs to
GraphOf(g, v) == GraphOfFrom(g.batch_num_nodes, v, 1)

\* graph.in_degrees()
InDegree(g, v) == Cardinality({e \in g.edges : e[2] = v})

EdgePool == {<<1, 2>>, <<2, 1>>, <<2, 2>>, <<3, 2>>, <<4, 3>>}

Batches(n) == {<<n>>} \cup {<<a, n - a>> : a \in 1..(n - 1)}

Skeleton(n, b) == [N |-> n, batch_num_nodes |-> b, edges |-> {}]

IntraEdges(n, b) ==
  {e \in EdgePool : /\ e[1] <= n
                    /\ e[2] <= n
                    /\ GraphOf(Skeleton(n, b), e[1]) = GraphOf(Skeleton(n, b), e[2])}

Graphs ==
  UNION {UNION {{[N |-> n, batch_num_nodes |-> b, edges |-> E] :
                   E \in SUBSET IntraEdges(n, b)} : b \in Batches(n)} : n \in 1..MaxN}

\* the per-node data store: a set of <<field, tensor>> pairs
HasField(frame, key) == \E p \in frame : p[1] = key
Field(frame, key) == (CHOOSE p \in frame : p[1] = key)[2]
SetField(frame, key, val) == {p \in frame : p[1] # key} \cup {<<key, val>>}
DelField(frame, key) == {p \in frame : p[1] # key}


\* ------------------------------------------------------------------- layer
\* the projection's parameters as the host framework left them after
\* construction: one fixed nonzero pattern
WeightEntry(o, j) == Num((IF j % 2 = 0 THEN -1 ELSE 1) * (1 + ((o + j) % 2)))

\* nn.Linear(in_features, out_features, bias)
Linear(in_features, out_features, bias) ==
  [weight |-> [o \in 1..out_features |-> [j \in 1..in_features |-> WeightEntry(o, j)]],
   bias   |-> IF bias THEN [o \in 1..out_features |-> Num(o)] ELSE <<>>]

\* ChebConv.__init__
ChebConv(in_feats, out_feats, k, activation, bias) ==
  [_k         |-> k,
   _in_feats  |-> in_feats,
   _out_feats |-> out_feats,
   activation |-> activation,
   linear     |-> Linear(k * in_feats, out_feats, bias)]

\* -------------------------------------------------------------- lambda_max
\* The lambda_max argument: None, a python list, or a tensor of 1 or 2
\* dimensions.  data is flat for a list and a 1-D tensor, rows for a 2-D one.
NoneArg == [kind |-> "None", dim |-> 0, data |-> <<>>]
ListArg(vals) == [kind |-> "list", dim |-> 1, data |-> vals]
Tensor1(vals) == [kind |-> "tensor", dim |-> 1, data |-> vals]
Tensor2(vals) == [kind |-> "tensor", dim |-> 2, data |-> [g \in 1..Len(vals) |-> <<vals[g]>>]]

Nums(ints) == [g \in 1..Len(ints) |-> Num(ints[g])]

\* the eigenvalues a caller or the estimator hands over, one per graph
LamVals == {2, 3}
\* what the two cells of an uninitialised tensor may hold
UninitVals == {0, 2}

\* th.Tensor(list)
FromList(l) == [kind |-> "tensor", dim |-> 1, data |-> l.data]

\* lambda_max.unsqueeze(-1) of a 1-D tensor
Unsqueeze(t) == [kind |-> "tensor", dim |-> 2, data |-> [g \in 1..Len(t.data) |-> <<t.data[g]>>]]

\* lines 99-100 left out: a 1-D tensor stays 1-D
Normalize_NoUnsqueeze(l) == IF l.kind = "list" THEN FromList(l) ELSE l

\* forward, lines 97-100
Normalize(l) ==
  LET t == IF l.kind = "list" THEN FromList(l) ELSE l
  IN  IF t.dim = 1 THEN Unsqueeze(t) ELSE t

\* broadcast_nodes(graph, t): a (B, 1) tensor to (N, 1), each graph's row
\* repeated for its nodes
BroadcastOk(g, t) == t.dim = 2 /\ Rows(t.data) = B(g)
BroadcastNodes(g, t) ==
  [kind |-> "tensor", dim |-> 2, data |-> [v \in 1..g.N |-> t.data[GraphOf(g, v)]]]

\* ------------------------------------------------------------------- state
VARIABLES
  self,        \* the layer: _k, _in_feats, _out_feats, activation, linear
  graph,       \* the graph's structure
  ndata,       \* graph.ndata, the frame in use
  scope,       \* the frames local_scope saved, innermost last
  feat,        \* the feat argument
  mode,        \* "supplied": the caller passes lambda_max; "estimated":
               \* it passes None and laplacian_lambda_max returns lam;
               \* "estfail": it passes None and laplacian_lambda_max raises
  lam,         \* the eigenvalues, one per graph of the batch
  pc,          \* forward's position
  lambda_max, D_invsqrt, re_norm, Xt, X_0, X_1, h, i,   \* forward's locals
  out,         \* what the last call returned (<<>>: nothing)
  err,         \* the step whose error the last call propagated
  warned,      \* the call emitted dgl_warning
  estCalls,    \* calls of laplacian_lambda_max in this call
  rounds,      \* calls of graph.update_all in this call
  prev,        \* what the call before returned (<<>>: nothing)
  entry        \* graph.ndata as the caller had it when it called

vars == <<self, graph, ndata, scope, feat, mode, lam, pc, lambda_max, D_invsqrt,
          re_norm, Xt, X_0, X_1, h, i, out, err, warned, estCalls, rounds, prev, entry>>

inputs == <<self, graph, feat, mode, lam>>
locals == <<lambda_max, D_invsqrt, re_norm, Xt, X_0, X_1, h, i>>
ghosts == <<err, warned, estCalls, rounds, prev, entry>>

k == self._k
N == graph.N

\* feat as the identity: column j is the indicator of node j, so that with
\* in_feats = N the basis terms are the Chebyshev operators themselves
IdentityFeat(n, d) == [v \in 1..n |-> [j \in 1..d |-> Num(IF v = j THEN 1 ELSE 0)]]
\* feat with no zero entry and both signs
PatternFeat(n, d) ==
  [v \in 1..n |-> [j \in 1..d |-> Num(IF (v + j) % 2 = 0 THEN v + j ELSE -v)]]

LamLists(b) == [1..b -> LamVals]

Modes(g) ==
  {[mode |-> m, lam |-> l] : m \in {"supplied", "estimated"}, l \in LamLists(B(g))}
    \cup {[mode |-> "estfail", lam |-> <<>>]}

\* a field 'h' of the caller's own
CallerH(n) == [v \in 1..n |-> <<Num(7)>>]

Setup(layer, g, x, m, frame) ==
  /\ self = layer
  /\ graph = g
  /\ feat = x
  /\ mode = m.mode
  /\ lam = m.lam
  /\ ndata = frame
  /\ scope = <<>>
  /\ pc = "idle"
  /\ lambda_max = NoneArg
  /\ D_invsqrt = <<>> /\ re_norm = <<>> /\ Xt = <<>> /\ X_0 = <<>> /\ X_1 = <<>>
  /\ h = <<>> /\ i = 0
  /\ out = <<>> /\ err = "none" /\ warned = FALSE /\ estCalls = 0 /\ rounds = 0
  /\ prev = <<>>
  /\ entry = frame

\* every graph of the pool, feat the identity (in_feats = N), one output
\* feature, relu and a bias
Init ==
  \E g \in Graphs, kk \in 1..MaxK :
    \E m \in Modes(g) :
      Setup(ChebConv(g.N, 1, kk, "relu", TRUE), g, IdentityFeat(g.N, g.N), m, {})

\* the layer's configurations on the graphs that hold every edge of the pool,
\* with and without a field 'h' of the caller's
InFeats == {1, 2}
OutFeats == {1, 2}
Activations == {"relu", "none"}

LayerGraphs ==
  UNION {{[N |-> n, batch_num_nodes |-> b, edges |-> IntraEdges(n, b)] :
            b \in Batches(n)} : n \in 1..MaxN}

LayerModes(g) ==
  {[mode |-> m, lam |-> [j \in 1..B(g) |-> 1 + j]] : m \in {"supplied", "estimated"}}
    \cup {[mode |-> "estfail", lam |-> <<>>]}

Frames(n) == {{}, {<<"h", CallerH(n)>>}}

InitLayer ==
  \E g \in LayerGraphs, kk \in 1..MaxK, din \in InFeats, dout \in OutFeats,
     act \in Activations, b \in BOOLEAN :
    \E m \in LayerModes(g), fr \in Frames(g.N) :
      Setup(ChebConv(din, dout, kk, act, b), g, PatternFeat(g.N, din), m, fr)


\* ----------------------------------------------------------------- forward
\* the clamp left out
Clamp_Off(d, min) == d

\* .clamp(min=1) of line 84
Clamp(d, min) == IF d < min THEN min ELSE d

\* graph.in_degrees().float().clamp(min=1), then th.pow(., -0.5).unsqueeze(-1)
DegreeNorm(g) == [v \in 1..g.N |-> <<InvSqrt(Clamp(InDegree(g, v), 1))>>]

\* th.Tensor(n): a 1-D tensor of n cells that nothing initialises
UninitTensors(n) == {Tensor1(Nums(u)) : u \in [1..n -> UninitVals]}

\* update_all(copy_u('h', 'm'), sum('m', 'h')): every node sums the field of
\* the sources of its incoming edges (zero without one)
UpdateAllSum(g, X) ==
  [v \in 1..g.N |->
     [c \in 1..Cols(X) |->
        NSum([u \in 1..g.N |-> IF <<u, v>> \in g.edges THEN X[u][c] ELSE Zero])]]

\* unnLaplacian, line 79: the scratch field written
LapWrite(frame, x, D) == SetField(frame, "h", TMul(x, D))
\* unnLaplacian, line 80
LapUpdate(g, frame) == SetField(frame, "h", UpdateAllSum(g, Field(frame, "h")))
\* unnLaplacian, line 81: the value returned, the field popped
LapResult(frame, D) == TMul(Field(frame, "h"), D)
LapPop(frame) == DelField(frame, "h")

\* every node rescaled by the first row's eigenvalue
ReNorm_FirstRow(lmax) == [v \in 1..Rows(lmax.data) |-> <<NDiv(Two, lmax.data[1][1])>>]

\* line 104
ReNorm(lmax) == TRecip(Two, lmax.data)

\* line 112, entry by entry: rn is (N, 1), hh and x0 are (N, D_in)
FirstBasis(rn, hh, x0) ==
  [r \in 1..Rows(x0) |->
     [c \in 1..Cols(x0) |->
        NAdd(NMul(NNeg(rn[r][1]), hh[r][c]),
             NMul(x0[r][c], NSub(rn[r][1], One)))]]

\* line 119, entry by entry
NextBasis(rn, hh, x1, x0) ==
  [r \in 1..Rows(x1) |->
     [c \in 1..Cols(x1) |->
        NSub(NAdd(NMul(NMul(Num(-2), rn[r][1]), hh[r][c]),
                  NMul(NMul(x1[r][c], Two), NSub(rn[r][1], One))),
             x0[r][c])]]

\* the history not slid: X_0 stays
SlideX0_Stale(x1, x0) == x0

\* line 122: the older term of the history after a loop step
SlideX0(x1, x0) == x1

\* local_scope entered: the frame saved, a copy of it in use
ScopeEnter == scope' = Append(scope, ndata) /\ ndata' = ndata
\* local_scope left, on return and on an error alike: the saved frame back
\* (no scope entered, nothing to leave)
ScopeExit ==
  IF scope = <<>> THEN UNCHANGED <<ndata, scope>>
  ELSE ndata' = scope[Len(scope)] /\ scope' = SubSeq(scope, 1, Len(scope) - 1)

LocalsGone ==
  /\ lambda_max' = NoneArg
  /\ D_invsqrt' = <<>> /\ re_norm' = <<>> /\ Xt' = <<>> /\ X_0' = <<>> /\ X_1' = <<>>
  /\ h' = <<>> /\ i' = 0

\* the caller calls forward(graph, feat[, lambda_max]); with a lambda_max it
\* picks one of the three representations of the same eigenvalues
Call ==
  /\ pc \in {"idle", "done", "raised"}
  /\ pc' = "scope"
  /\ IF mode = "supplied"
       THEN lambda_max' \in {ListArg(Nums(lam)), Tensor1(Nums(lam)), Tensor2(Nums(lam))}
       ELSE lambda_max' = NoneArg
  /\ prev' = IF pc = "done" THEN out ELSE prev
  /\ entry' = ndata
  /\ out' = <<>> /\ err' = "none" /\ warned' = FALSE /\ estCalls' = 0 /\ rounds' = 0
  /\ UNCHANGED <<inputs, ndata, scope, D_invsqrt, re_norm, Xt, X_0, X_1, h, i>>

\* forward's body run on the caller's frame, no scope entered
EnterScope_Unscoped ==
  /\ pc = "scope"
  /\ pc' = "degree"
  /\ UNCHANGED <<inputs, ndata, scope, locals, out, ghosts>>

\* line 83
EnterScope ==
  /\ pc = "scope"
  /\ ScopeEnter
  /\ pc' = "degree"
  /\ UNCHANGED <<inputs, locals, out, ghosts>>

\* lines 84-85
Degree ==
  /\ pc = "degree"
  /\ D_invsqrt' = DegreeNorm(graph)
  /\ pc' = "resolve"
  /\ UNCHANGED <<inputs, ndata, scope, lambda_max, re_norm, Xt, X_0, X_1, h, i, out, ghosts>>

\* lines 87, 97-100 with a lambda_max given
Supplied ==
  /\ pc = "resolve"
  /\ lambda_max.kind # "None"
  /\ lambda_max' = Normalize(lambda_max)
  /\ pc' = "broadcast"
  /\ UNCHANGED <<inputs, ndata, scope, D_invsqrt, re_norm, Xt, X_0, X_1, h, i, out, ghosts>>

\* lines 87-89, 97-100: laplacian_lambda_max returns the list of eigenvalues
Estimate ==
  /\ pc = "resolve"
  /\ lambda_max.kind = "None"
  /\ mode = "estimated"
  /\ estCalls' = estCalls + 1
  /\ lambda_max' = Normalize(ListArg(Nums(lam)))
  /\ pc' = "broadcast"
  /\ UNCHANGED <<inputs, ndata, scope, D_invsqrt, re_norm, Xt, X_0, X_1, h, i, out,
                 err, warned, rounds, prev, entry>>

\* lines 87-100: laplacian_lambda_max raises, the warning, th.Tensor(2)
EstimateFallback ==
  /\ pc = "resolve"
  /\ lambda_max.kind = "None"
  /\ mode = "estfail"
  /\ estCalls' = estCalls + 1
  /\ warned' = TRUE
  /\ \E t \in UninitTensors(2) : lambda_max' = Normalize(t)
  /\ pc' = "broadcast"
  /\ UNCHANGED <<inputs, ndata, scope, D_invsqrt, re_norm, Xt, X_0, X_1, h, i, out,
                 err, rounds, prev, entry>>

\* line 103
Broadcast ==
  /\ pc = "broadcast"
  /\ BroadcastOk(graph, lambda_max)
  /\ lambda_max' = BroadcastNodes(graph, lambda_max)
  /\ pc' = "rescale"
  /\ UNCHANGED <<inputs, ndata, scope, D_invsqrt, re_norm, Xt, X_0, X_1, h, i, out, ghosts>>

\* lines 104, 107
Rescale ==
  /\ pc = "rescale"
  /\ re_norm' = ReNorm(lambda_max)
  /\ Xt' = feat
  /\ X_0' = feat
  /\ pc' = "first"
  /\ UNCHANGED <<inputs, ndata, scope, lambda_max, D_invsqrt, X_1, h, i, out, ghosts>>

\* the first message-passing round made for k = 1 too
HasFirstTerm_Ge1(kk) == kk >= 1

\* line 110
HasFirstTerm(kk) == kk > 1

\* lines 110-111 and 79; with k = 1 on to the loop header
FirstTerm ==
  /\ pc = "first"
  /\ IF HasFirstTerm(k)
       THEN /\ ndata' = LapWrite(ndata, X_0, D_invsqrt)
            /\ i' = 1
            /\ pc' = "update"
       ELSE /\ ndata' = ndata
            /\ i' = 2
            /\ pc' = "loop"
  /\ UNCHANGED <<inputs, scope, lambda_max, D_invsqrt, re_norm, Xt, X_0, X_1, h, out, ghosts>>

\* line 80
UpdateAll ==
  /\ pc = "update"
  /\ ndata' = LapUpdate(graph, ndata)
  /\ rounds' = rounds + 1
  /\ pc' = "combine"
  /\ UNCHANGED <<inputs, scope, locals, out, err, warned, estCalls, prev, entry>>

\* line 81, then lines 112-114 (the term X_1) or 119-122 (a term X_i, i >= 2)
Combine ==
  /\ pc = "combine"
  /\ LET hh == LapResult(ndata, D_invsqrt)
         Xi == IF i = 1 THEN FirstBasis(re_norm, hh, X_0)
                        ELSE NextBasis(re_norm, hh, X_1, X_0)
     IN  /\ Xt' = Cat(Xt, Xi)
         /\ X_1' = Xi
         /\ X_0' = IF i = 1 THEN X_0 ELSE SlideX0(X_1, X_0)
  /\ ndata' = LapPop(ndata)
  /\ i' = i + 1
  /\ pc' = "loop"
  /\ UNCHANGED <<inputs, scope, lambda_max, D_invsqrt, re_norm, h, out, ghosts>>

\* lines 117-118 and 79: the header of for _ in range(2, k)
LoopTerm ==
  /\ pc = "loop"
  /\ IF i < k
       THEN /\ ndata' = LapWrite(ndata, X_1, D_invsqrt)
            /\ pc' = "update"
       ELSE /\ ndata' = ndata
            /\ pc' = "linear"
  /\ UNCHANGED <<inputs, scope, locals, out, ghosts>>

\* line 125
Project ==
  /\ pc = "linear"
  /\ Cols(Xt) = Cols(self.linear.weight)
  /\ h' = LinearApply(self.linear, Xt)
  /\ pc' = "activation"
  /\ UNCHANGED <<inputs, ndata, scope, lambda_max, D_invsqrt, re_norm, Xt, X_0, X_1, i,
                 out, ghosts>>

\* lines 128-131: the activation if there is one, the scope left, h returned
ActivateReturn ==
  /\ pc = "activation"
  /\ out' = IF self.activation = "relu" THEN Relu(h) ELSE h
  /\ ScopeExit
  /\ LocalsGone
  /\ pc' = "done"
  /\ UNCHANGED <<inputs, ghosts>>

\* the steps that call out of forward and may raise there
RaisingSteps ==
  {"degree", "broadcast", "update", "linear"}
    \cup (IF self.activation = "none" THEN {} ELSE {"activation"})

\* an error with no handler in forward: the scope is left, the error goes up
Propagate(step) ==
  /\ err' = step
  /\ ScopeExit
  /\ LocalsGone
  /\ out' = <<>>
  /\ pc' = "raised"
  /\ UNCHANGED <<inputs, warned, estCalls, rounds, prev, entry>>

\* every error caught: the call returns what h holds
Raise_Swallowed ==
  /\ pc \in RaisingSteps
  /\ err' = pc
  /\ out' = h
  /\ ScopeExit
  /\ LocalsGone
  /\ pc' = "done"
  /\ UNCHANGED <<inputs, warned, estCalls, rounds, prev, entry>>

\* in_degrees, broadcast_nodes, update_all, the projection or the activation
\* raises
Raise ==
  /\ pc \in RaisingSteps
  /\ Propagate(pc)

\* line 103 with a tensor that does not hold one row per graph
BroadcastMismatch ==
  /\ pc = "broadcast"
  /\ ~BroadcastOk(graph, lambda_max)
  /\ Propagate("shape")

Next ==
  \/ Call
  \/ EnterScope
  \/ Degree
  \/ Supplied
  \/ Estimate
  \/ EstimateFallback
  \/ Broadcast
  \/ BroadcastMismatch
  \/ Rescale
  \/ FirstTerm
  \/ UpdateAll
  \/ Combine
  \/ LoopTerm
  \/ Project
  \/ ActivateReturn
  \/ Raise

Spec == Init /\ [][Next]_vars

SpecLayer == InitLayer /\ [][Next]_vars


\* ------------------------------------------------- the Chebyshev reference
\* The class docstring's definition (lines 16-25), with the matrices written
\* out: L^ = 2 (I - D^-1/2 A D^-1/2) / lambda_max - I, row v scaled by the
\* lambda_max of v's graph; Z^0 = H, Z^1 = L^ H, Z^j = 2 L^ Z^(j-1) - Z^(j-2).
Delta(v, u) == IF v = u THEN One ELSE Zero
Adj(v, u) == IF <<u, v>> \in graph.edges THEN One ELSE Zero

LhatEntry(v, u) ==
  NSub(NDiv(NMul(Two, NSub(Delta(v, u),
                           NMul(NMul(D_invsqrt[v][1], Adj(v, u)), D_invsqrt[u][1]))),
            lambda_max.data[v][1]),
       Delta(v, u))

\* (\o <<>> has TLC evaluate the rows once, not at every use)
Lhat == [v \in 1..N |-> [u \in 1..N |-> LhatEntry(v, u)] \o <<>>] \o <<>>

MatMul(L, X) ==
  [v \in 1..Len(L) |->
     [c \in 1..Cols(X) |-> NSum([u \in 1..Len(L) |-> NMul(L[v][u], X[u][c])])] \o <<>>] \o <<>>

RECURSIVE ChebTerms(_, _, _)
\* <<Z^0, ..., Z^(n-1)>>
ChebTerms(L, X, n) ==
  IF n = 1 THEN <<X>>
  ELSE IF n = 2 THEN <<X, MatMul(L, X)>>
  ELSE LET P == ChebTerms(L, X, n - 1)
           Q == MatMul(L, P[n - 1])
       IN  Append(P, [v \in 1..Len(X) |->
                        [c \in 1..Cols(X) |->
                           NSub(NMul(Two, Q[v][c]), P[n - 2][v][c])] \o <<>>])

\* the j-th block of width d of a concatenation, j = 0, 1, ...
Block(X, j, d) == [v \in 1..Rows(X) |-> SubSeq(X[v], j * d + 1, (j + 1) * d)]

AllEntries(X, P(_)) == \A r \in 1..Rows(X) : \A c \in 1..Len(X[r]) : P(X[r][c])

InCall == pc \notin {"idle", "done", "raised"}
\* lambda_max holds one row per node
PerNode == pc \in {"rescale", "first", "update", "combine", "loop", "linear", "activation"}
HasReNorm == pc \in {"first", "update", "combine", "loop", "linear", "activation"}
\* the basis terms computed when forward stands at the loop header
TermsDone == IF k = 1 THEN 1 ELSE i

\* ------------------------------------------------------------------ claims

\* C1: for a nonzero per-node lambda_max, whenever forward stands at the loop
\* header the blocks of Xt are the Chebyshev terms Z^0 .. Z^(i-1) of the
\* docstring applied to feat, in that order, and the two-term history holds
\* the last two of them.
C1_ChebyshevBasis ==
  (pc = "loop" /\ \A v \in 1..N : lambda_max.data[v][1] # Zero) =>
    LET T == ChebTerms(Lhat, feat, TermsDone)
    IN  /\ Cols(Xt) = TermsDone * self._in_feats
        /\ \A j \in 1..TermsDone : Block(Xt, j - 1, self._in_feats) = T[j]
        /\ k > 1 => (X_1 = T[TermsDone] /\ X_0 = T[TermsDone - 1])

\* the fourth term has been computed on a batch of two graphs with different
\* eigenvalues and with edges
W_C1 ==
  /\ pc = "loop" /\ i = 4 /\ k = 4
  /\ B(graph) = 2 /\ mode = "supplied" /\ lam[1] # lam[2]
  /\ Cardinality(graph.edges) >= 2

\* C2: when lambda_max is not given and the estimator raises, forward itself
\* raises nothing, warns, and uses lambda_max = 2 for every node.
C2_FallbackIsTwo ==
  mode = "estfail" =>
    /\ pc = "raised" => err \in {"degree", "broadcast", "update", "linear", "activation"}
    /\ PerNode => (warned /\ \A v \in 1..N : lambda_max.data[v] = <<Two>>)

\* C3: on return and on an error alike graph.ndata is what it was when the
\* caller called, the scope is left, and a call starts on a store that holds
\* no field but the caller's own.
C3_ScopeRestored ==
  /\ pc \in {"done", "raised"} => (ndata = entry /\ scope = <<>>)
  /\ pc = "scope" => ndata \in Frames(N)
  /\ (InCall /\ pc # "scope") => scope = <<entry>>

\* update_all raised in the second Laplacian-apply, the scratch field written,
\* on a graph whose caller has a field 'h' of its own
W_C3 ==
  /\ pc = "raised" /\ err = "update" /\ rounds = 1
  /\ HasField(entry, "h")

\* C4: a list, a (B,) tensor and a (B, 1) tensor of the same eigenvalues are
\* the same (B, 1) tensor when forward reaches broadcast_nodes, and a call
\* returns what the call before returned, whichever of the three each passed.
C4_SameNormalForm ==
  mode = "supplied" =>
    /\ pc = "broadcast" => lambda_max = Tensor2(Nums(lam))
    /\ (pc = "done" /\ prev # <<>>) => out = prev

\* a second call returned, on a batch of two graphs with different eigenvalues
W_C4 ==
  /\ mode = "supplied" /\ pc = "done" /\ prev # <<>>
  /\ B(graph) = 2 /\ lam[1] # lam[2] /\ k > 1 /\ graph.edges # {}

\* C5: with per-graph eigenvalues, given or estimated, re_norm[v] is
\* 2 / lambda_max of v's own graph, from line 104 to the end of the call.
C5_PerGraphReNorm ==
  (HasReNorm /\ mode \in {"supplied", "estimated"}) =>
    /\ Rows(re_norm) = N
    /\ \A v \in 1..N : re_norm[v] = <<NDiv(Two, Num(lam[GraphOf(graph, v)]))>>

\* a recurrence step of the loop on a batch of two graphs with different
\* eigenvalues
W_C5 ==
  /\ pc = "combine" /\ i >= 2
  /\ B(graph) = 2 /\ mode \in {"supplied", "estimated"} /\ lam[1] # lam[2]

\* C6: forward makes k - 1 message-passing rounds; with k = 1 it makes none,
\* never writes the scratch field, projects feat itself, and returns the
\* projection (and activation) of feat, in which no edge appears.
C6_RoundsAndKOne ==
  /\ rounds <= k - 1
  /\ pc = "done" => rounds = k - 1
  /\ k = 1 =>
       /\ (InCall /\ pc # "scope") => ndata = entry
       /\ pc = "linear" => Xt = feat
       /\ pc = "done" =>
            out = (IF self.activation = "relu" THEN Relu(LinearApply(self.linear, feat))
                                             ELSE LinearApply(self.linear, feat))

\* a call with k = 1 returned on a batch of two graphs with edges
W_C6 == k = 1 /\ pc = "done" /\ graph.edges # {} /\ B(graph) = 2

\* C7: at the projection Xt has N rows of k * in_feats entries, the width
\* nn.Linear was built for, its blocks are Z^0 .. Z^(k-1) in that order, and
\* the tensor returned has N rows of out_feats entries.
C7_Shapes ==
  /\ pc = "linear" =>
       /\ Rows(Xt) = N
       /\ \A r \in 1..N : Len(Xt[r]) = k * self._in_feats
       /\ Cols(self.linear.weight) = k * self._in_feats
       /\ (\A v \in 1..N : lambda_max.data[v][1] # Zero) =>
            LET T == ChebTerms(Lhat, feat, k)
            IN  \A j \in 1..k : Block(Xt, j - 1, self._in_feats) = T[j]
  /\ pc = "done" =>
       /\ Rows(out) = N
       /\ \A r \in 1..N : Len(out[r]) = self._out_feats

\* the projection reached with four blocks of two features on a batch of two
\* graphs, three nodes in all
W_C7 ==
  /\ pc = "linear" /\ k = 4 /\ self._in_feats = 2 /\ self._out_feats = 2
  /\ B(graph) = 2 /\ N = 3

\* C8: D_invsqrt[v] is finite, positive, at most 1, the inverse square root
\* of max(in_degree(v), 1), and 1 for an isolated node; with finite nonzero
\* eigenvalues the scratch field and the basis terms stay finite.
C8_DegreeNorm ==
  /\ D_invsqrt # <<>> =>
       \A v \in 1..N :
         LET x == D_invsqrt[v][1]
             d == InDegree(graph, v)
         IN  /\ IsFinite(x)
             /\ NSign(x) > 0
             /\ NSign(NSub(One, x)) >= 0
             /\ NMul(NMul(x, x), Num(Max(d, 1))) = One
             /\ d = 0 => x = One
  /\ (mode # "estfail" /\ Xt # <<>>) => AllEntries(Xt, IsFinite)
  /\ (mode # "estfail" /\ pc \in {"update", "combine"}) =>
       AllEntries(Field(ndata, "h"), IsFinite)

\* a Laplacian-apply under way on a graph with an isolated node and a node of
\* in-degree 3
W_C8 ==
  /\ pc = "combine"
  /\ \E v \in 1..N : InDegree(graph, v) = 0
  /\ \E v \in 1..N : InDegree(graph, v) = 3

\* C9: a call returns what the call before returned (the graph, feat, the
\* lambda_max argument and the weights being the same).
C9_Idempotent == (pc = "done" /\ prev # <<>>) => out = prev

\* C10: the estimator is called only without a lambda_max, its failure is the
\* only one forward survives, a given lambda_max is what the nodes get, and
\* an error of any other step ends the call with no value returned.
C10_OnlyEstimatorRecovered ==
  /\ mode = "supplied" =>
       /\ estCalls = 0 /\ ~warned
       /\ PerNode => \A v \in 1..N : lambda_max.data[v] = <<Num(lam[GraphOf(graph, v)])>>
  /\ estCalls <= 1
  /\ warned => (mode = "estfail" /\ estCalls = 1)
  /\ err # "none" => (pc = "raised" /\ out = <<>>)
  /\ pc = "raised" => err # "none"
  /\ pc = "done" => (err = "none" /\ out # <<>>)

\* the activation raised after a projection, lambda_max given
W_C10 == pc = "raised" /\ err = "activation" /\ mode = "supplied" /\ k > 1

====
